---- MODULE Spec2Model ----
(***************************************************************************)
(* cargo-minify: the command driver of src/src/lib.rs.                     *)
(*                                                                         *)
(* Spec        one run of run()/execute(): option validation, diagnostic   *)
(*             collection, diff preview, VCS guard, commit, exit status.   *)
(* SpecFilter  FileResolutionOptions::from_options followed by             *)
(*             FileResolutionOptions::is_included on one file name.        *)
(***************************************************************************)
EXTENDS Integers, Sequences, FiniteSets, TLC

VARIABLES
    opts,             \* MinifyOptions as parsed from the arguments
    pc,               \* position inside run()/execute()
    crate_resolution, \* CrateResolutionOptions::from_options result
    file_resolution,  \* FileResolutionOptions::from_options result
    changes,          \* number of Change records collected (files 1..changes)
    stdout,           \* what was printed with println!
    stderr,           \* what was printed with eprintln!
    calls,            \* external collaborators invoked so far, in order
    vcs,              \* what vcs::status returned
    written,          \* files rewritten by cauterize::commit_changes
    result,           \* what execute returned ("Panic" for the unwrap)
    status_code,      \* process exit status
    file_name,        \* file name handed to is_included
    included          \* what is_included returned

vars == <<opts, pc, crate_resolution, file_resolution, changes, stdout, stderr,
          calls, vcs, written, result, status_code, file_name, included>>

----------------------------------------------------------------------------
(* Bounds *)

\* most Change records one run collects
MaxChanges == 2
\* longest --file / --ignore list in SpecFilter
MaxPats == 2

\* exit status of a Rust process that panicked
PanicStatus == 101
\* status_code before the process has exited
NoStatus == 0 - 1
\* changes before process_diagnostics has been collected
NotCollected == 0 - 1

----------------------------------------------------------------------------
(* Glob patterns and file names, as sequences of characters *)

PatSrcRs     == <<"s","r","c","/","*",".","r","s">>
PatGenerated == <<"g","e","n","e","r","a","t","e","d","/","*","*">>
PatTestsQ    == <<"t","e","s","t","s","/","f","o","?",".","r","s">>
PatAnyRs     == <<"*","*","/","*",".","r","s">>

FileSrcA     == <<"s","r","c","/","a",".","r","s">>
FileSrcSub   == <<"s","r","c","/","x","/","b",".","r","s">>
FileTestsFoo == <<"t","e","s","t","s","/","f","o","o",".","r","s">>
FileGenXY    == <<"g","e","n","e","r","a","t","e","d","/","x","/","y",".","r","s">>
FileReadme   == <<"R","E","A","D","M","E">>

PatternPool == {PatSrcRs, PatGenerated, PatTestsQ, PatAnyRs}
FilePool    == {FileSrcA, FileSrcSub, FileTestsFoo, FileGenXY, FileReadme}

RECURSIVE SeqsUpTo(_, _)
SeqsUpTo(S, n) ==
    IF n = 0 THEN {<<>>}
    ELSE LET shorter == SeqsUpTo(S, n - 1)
         IN  shorter \cup {Append(s, x) : s \in shorter, x \in S}

Sep == "/"

\* "**" at glob index i that stands for a whole path segment
IsGlobstar(glob, i) ==
    /\ i + 1 <= Len(glob)
    /\ glob[i] = "*" /\ glob[i + 1] = "*"
    /\ (i = 1 \/ glob[i - 1] = Sep)
    /\ (i + 2 > Len(glob) \/ glob[i + 2] = Sep)

\* glob_match::glob_match(glob, path), from glob index i and path index j:
\* literals, "?" (one non-separator), "*" (any run of non-separators) and
\* "**" as a whole segment (any run of characters, separators included).
RECURSIVE MatchFrom(_, _, _, _)
MatchFrom(glob, i, path, j) ==
    IF i > Len(glob) THEN j > Len(path)
    ELSE IF IsGlobstar(glob, i) THEN
        IF i + 2 > Len(glob) THEN TRUE
        ELSE \/ MatchFrom(glob, i + 3, path, j)
             \/ \E k \in j..Len(path) :
                    path[k] = Sep /\ MatchFrom(glob, i + 3, path, k + 1)
    ELSE IF glob[i] = "*" THEN
        \E k \in j..(Len(path) + 1) :
            /\ \A m \in j..(k - 1) : path[m] # Sep
            /\ MatchFrom(glob, i + 1, path, k)
    ELSE IF glob[i] = "?" THEN
        /\ j <= Len(path) /\ path[j] # Sep
        /\ MatchFrom(glob, i + 1, path, j + 1)
    ELSE
        /\ j <= Len(path) /\ path[j] = glob[i]
        /\ MatchFrom(glob, i + 1, path, j + 1)

glob_match(glob, path) == MatchFrom(glob, 1, path, 1)

----------------------------------------------------------------------------
(* Option validation: lib.rs 179-236 *)

NoResolution == [kind |-> "Unset", list |-> <<>>]

CrateFromOptionsPkgWins(o) ==
    LET w == o.workspace
        p == o.package # <<>>
        e == o.exclude # <<>>
    IN  IF p /\ ~e THEN [kind |-> "Package", list |-> o.package]
        ELSE IF w /\ ~p THEN [kind |-> "Workspace", list |-> o.exclude]
        ELSE IF ~w /\ ~p /\ ~e THEN [kind |-> "Root", list |-> <<>>]
        ELSE [kind |-> "Err", list |-> <<>>]

\* CrateResolutionOptions::from_options
CrateFromOptions(o) ==
    LET w == o.workspace
        p == o.package # <<>>
        e == o.exclude # <<>>
    IN  IF w /\ ~p THEN [kind |-> "Workspace", list |-> o.exclude]
        ELSE IF ~w /\ p /\ ~e THEN [kind |-> "Package", list |-> o.package]
        ELSE IF ~w /\ ~p /\ ~e THEN [kind |-> "Root", list |-> <<>>]
        ELSE [kind |-> "Err", list |-> <<>>]

FileFromOptionsAllowWins(o) ==
    IF o.file # <<>> THEN [kind |-> "Only", list |-> o.file]
    ELSE [kind |-> "AllBut", list |-> o.ignore]

\* FileResolutionOptions::from_options
FileFromOptions(o) ==
    LET f == o.file # <<>>
        i == o.ignore # <<>>
    IN  IF ~f THEN [kind |-> "AllBut", list |-> o.ignore]
        ELSE IF ~i THEN [kind |-> "Only", list |-> o.file]
        ELSE [kind |-> "Err", list |-> <<>>]

\* Iterator::any over the patterns, stopping at the first match
RECURSIVE IterAny(_, _)
IterAny(pats, name) ==
    IF pats = <<>> THEN FALSE
    ELSE IF glob_match(Head(pats), name) THEN TRUE
    ELSE IterAny(Tail(pats), name)

\* Iterator::all of |ignore| !glob_match(ignore, name), stopping at the
\* first pattern for which the closure is false
RECURSIVE IterAllNot(_, _)
IterAllNot(pats, name) ==
    IF pats = <<>> THEN TRUE
    ELSE IF ~(~glob_match(Head(pats), name)) THEN FALSE
    ELSE IterAllNot(Tail(pats), name)

is_included_any_both(fr, name) == IterAny(fr.list, name)

\* FileResolutionOptions::is_included
is_included(fr, name) ==
    IF fr.kind = "Only" THEN IterAny(fr.list, name)
    ELSE IterAllNot(fr.list, name)

----------------------------------------------------------------------------
(* run() and execute(): lib.rs 66-177 *)

Line(k, n) == [kind |-> k, change |-> n]

\* lib.rs 125-133, stdout part: one diff per change unless quiet
PreviewLines(o, n) ==
    IF o.quiet THEN <<>> ELSE [i \in 1..n |-> Line("diff", i)]

\* lib.rs 125-133, stderr part
PreviewNotes(o, n) ==
    IF ~o.quiet /\ n = 0 THEN <<"no unused code that can be minified">> ELSE <<>>

QueriesVcsAlways(o) == TRUE

\* lib.rs 137: the VCS guard is consulted only under --apply
QueriesVcs(o) == o.apply

StageAfterMetadataLast(stage, o) ==
    CASE stage = "preview"  -> IF QueriesVcs(o) THEN "vcs" ELSE "hint"
      [] stage = "vcs"      -> "commit"
      [] stage = "commit"   -> "metadata"
      [] stage = "hint"     -> "metadata"
      [] stage = "metadata" -> "returned"
      [] OTHER              -> "returned"

\* order of the statements of execute's else branch, lib.rs 117-173
StageAfter(stage, o) ==
    CASE stage = "preview"  -> "metadata"
      [] stage = "metadata" -> IF QueriesVcs(o) THEN "vcs" ELSE "hint"
      [] stage = "vcs"      -> "commit"
      [] stage = "commit"   -> "returned"
      [] stage = "hint"     -> "returned"
      [] OTHER              -> "returned"

RefusesApplyEitherOverride(st, o) ==
    \/ st.kind = "Error"
    \/ st.kind = "NoVCS" /\ ~o.allow_no_vcs
    \/ st.kind = "Unclean"
         /\ ~(st.dirty = {} \/ o.allow_dirty)
         /\ ~(st.staged = {} \/ o.allow_staged)

RefusesApplyErrorOverridable(st, o) ==
    \/ st.kind = "Error" /\ ~o.allow_no_vcs
    \/ st.kind = "NoVCS" /\ ~o.allow_no_vcs
    \/ st.kind = "Unclean"
         /\ (\/ ~(st.dirty = {} \/ o.allow_dirty)
             \/ ~(st.staged = {} \/ o.allow_staged))

\* the guarded arms of the match on vcs::status, lib.rs 139-165:
\* TRUE when an arm other than the final `_` is taken
RefusesApply(st, o) ==
    \/ st.kind = "Error"
    \/ st.kind = "NoVCS" /\ ~o.allow_no_vcs
    \/ st.kind = "Unclean"
         /\ (\/ ~(st.dirty = {} \/ o.allow_dirty)
             \/ ~(st.staged = {} \/ o.allow_staged))

\* what the taken arm prints with eprintln!, lib.rs 140-165
RefusalNotes(st) ==
    CASE st.kind = "Error"   -> <<"git problem">>
      [] st.kind = "NoVCS"   -> <<"no VCS found">>
      [] st.kind = "Unclean" -> <<"working directory contains dirty/staged files">>
      [] OTHER               -> <<>>

StatusCodeIoAsArgs(res) ==
    CASE res = "Io"          -> 1
      [] res = "Utf8"        -> 2
      [] res = "Args"        -> 1
      [] res = "CommandLine" -> 1
      [] res = "Panic"       -> PanicStatus
      [] OTHER               -> 0

\* the match on execute's result in run, lib.rs 81-101; a panic never
\* reaches the match and ends the process with the runtime's status
StatusCode(res) ==
    CASE res = "Io"          -> 3
      [] res = "Utf8"        -> 2
      [] res = "Args"        -> 1
      [] res = "CommandLine" -> 1
      [] res = "Panic"       -> PanicStatus
      [] OTHER               -> 0

RunNotes(res) ==
    CASE res = "Io"          -> <<"IO error">>
      [] res = "Utf8"        -> <<"Encoding error">>
      [] res = "Args"        -> <<"error", "For more information, try '--help'">>
      [] res = "CommandLine" -> <<"error", "For more information, try '--help'">>
      [] OTHER               -> <<>>

VcsFiles == {"Cargo.toml"}
NoStatusYet == [kind |-> "Unqueried", dirty |-> {}, staged |-> {}]
VcsStatuses ==
    {[kind |-> k, dirty |-> {}, staged |-> {}] : k \in {"Error", "NoVCS", "Clean"}}
    \cup {[kind |-> "Unclean", dirty |-> d, staged |-> s] :
              d \in SUBSET VcsFiles, s \in SUBSET VcsFiles}

ExternalFailures == {"Io", "Utf8"}

\* lib.rs 109-112: parse the arguments, then the two from_options, each `?`
Parse(parsed) ==
    /\ pc = "parse"
    /\ IF ~parsed
       THEN /\ result' = "CommandLine" /\ pc' = "returned"
            /\ UNCHANGED <<crate_resolution, file_resolution>>
       ELSE LET cr == CrateFromOptions(opts)
                fr == FileFromOptions(opts)
            IN  /\ crate_resolution' = cr
                /\ IF cr.kind = "Err"
                   THEN /\ result' = "Args" /\ pc' = "returned"
                        /\ UNCHANGED file_resolution
                   ELSE /\ file_resolution' = fr
                        /\ IF fr.kind = "Err"
                           THEN result' = "Args" /\ pc' = "returned"
                           ELSE pc' = "body" /\ UNCHANGED result
    /\ UNCHANGED <<opts, changes, stdout, stderr, calls, vcs, written,
                   status_code, file_name, included>>

\* lib.rs 114-115
Help ==
    /\ pc = "body" /\ opts.help
    /\ stdout' = Append(stdout, Line("usage", 0))
    /\ result' = "Ok" /\ pc' = "returned"
    /\ UNCHANGED <<opts, crate_resolution, file_resolution, changes, stderr,
                   calls, vcs, written, status_code, file_name, included>>

\* lib.rs 117-123: unused::get_unused(..)? then process_diagnostics
GetUnused(outcome, n) ==
    /\ pc = "body" /\ ~opts.help
    /\ calls' = Append(calls, "get_unused")
    /\ IF outcome \in ExternalFailures
       THEN result' = outcome /\ pc' = "returned" /\ UNCHANGED changes
       ELSE changes' = n /\ pc' = "preview" /\ UNCHANGED result
    /\ UNCHANGED <<opts, crate_resolution, file_resolution, stdout, stderr,
                   vcs, written, status_code, file_name, included>>

\* lib.rs 125-133
Preview ==
    /\ pc = "preview"
    /\ stdout' = stdout \o PreviewLines(opts, changes)
    /\ stderr' = stderr \o PreviewNotes(opts, changes)
    /\ pc' = StageAfter("preview", opts)
    /\ UNCHANGED <<opts, crate_resolution, file_resolution, changes, calls,
                   vcs, written, result, status_code, file_name, included>>

\* lib.rs 135: resolver::get_cargo_metadata(..)?
GetCargoMetadata(outcome) ==
    /\ pc = "metadata"
    /\ calls' = Append(calls, "get_cargo_metadata")
    /\ IF outcome \in ExternalFailures
       THEN result' = outcome /\ pc' = "returned"
       ELSE /\ pc' = StageAfter("metadata", opts)
            /\ result' = IF pc' = "returned" THEN "Ok" ELSE result
    /\ UNCHANGED <<opts, crate_resolution, file_resolution, changes, stdout,
                   stderr, vcs, written, status_code, file_name, included>>

\* lib.rs 139-165: vcs::status and the arms that refuse to apply
VcsStatus(st) ==
    /\ pc = "vcs"
    /\ calls' = Append(calls, "vcs_status")
    /\ vcs' = st
    /\ IF RefusesApply(st, opts)
       THEN /\ stderr' = stderr \o RefusalNotes(st)
            /\ result' = "Ok" /\ pc' = "returned"
       ELSE /\ pc' = StageAfter("vcs", opts)
            /\ result' = IF pc' = "returned" THEN "Ok" ELSE result
            /\ UNCHANGED stderr
    /\ UNCHANGED <<opts, crate_resolution, file_resolution, changes, stdout,
                   written, status_code, file_name, included>>

\* cauterize::commit_changes: the files are written one after the other, a
\* written file stays written, the first failing write ends the loop
commit_changes(n, done) ==
    [files |-> 1..done, ok |-> done = n]

\* lib.rs 166-169: commit_changes(changes).unwrap()
Commit(done) ==
    /\ pc = "commit"
    /\ done \in 0..changes
    /\ LET c == commit_changes(changes, done)
       IN  /\ calls' = Append(calls, "commit_changes")
           /\ written' = c.files
           /\ IF c.ok
              THEN /\ pc' = StageAfter("commit", opts)
                   /\ result' = IF pc' = "returned" THEN "Ok" ELSE result
              ELSE result' = "Panic" /\ pc' = "returned"
    /\ UNCHANGED <<opts, crate_resolution, file_resolution, changes, stdout,
                   stderr, vcs, status_code, file_name, included>>

\* lib.rs 171-173
Hint ==
    /\ pc = "hint"
    /\ stdout' = IF changes # 0 THEN Append(stdout, Line("hint", 0)) ELSE stdout
    /\ pc' = StageAfter("hint", opts)
    /\ result' = IF pc' = "returned" THEN "Ok" ELSE result
    /\ UNCHANGED <<opts, crate_resolution, file_resolution, changes, stderr,
                   calls, vcs, written, status_code, file_name, included>>

\* lib.rs 81-105: report the error and exit with the status code
Exit ==
    /\ pc = "returned"
    /\ status_code' = StatusCode(result)
    /\ stderr' = stderr \o RunNotes(result)
    /\ pc' = "exited"
    /\ UNCHANGED <<opts, crate_resolution, file_resolution, changes, stdout,
                   calls, vcs, written, result, file_name, included>>

NameLists == {<<>>, <<"dummy-package">>}
PatLists  == {<<>>, <<PatSrcRs>>}

OptionSets(files, ignores) ==
    [quiet : BOOLEAN, package : NameLists, workspace : BOOLEAN,
     exclude : NameLists, file : files, ignore : ignores, apply : BOOLEAN,
     help : BOOLEAN, allow_dirty : BOOLEAN, allow_staged : BOOLEAN,
     allow_no_vcs : BOOLEAN]

Fresh ==
    /\ crate_resolution = NoResolution
    /\ file_resolution = NoResolution
    /\ changes = NotCollected
    /\ stdout = <<>>
    /\ stderr = <<>>
    /\ calls = <<>>
    /\ vcs = NoStatusYet
    /\ written = {}
    /\ result = "Running"
    /\ status_code = NoStatus
    /\ included = "unset"

Init ==
    /\ opts \in OptionSets(PatLists, PatLists)
    /\ pc = "parse"
    /\ file_name = FileSrcA
    /\ Fresh

Next ==
    \/ \E parsed \in BOOLEAN : Parse(parsed)
    \/ Help
    \/ \E outcome \in ExternalFailures \cup {"Ok"}, n \in 0..MaxChanges :
           GetUnused(outcome, n)
    \/ Preview
    \/ \E outcome \in ExternalFailures \cup {"Ok"} : GetCargoMetadata(outcome)
    \/ \E st \in VcsStatuses : VcsStatus(st)
    \/ \E done \in 0..MaxChanges : Commit(done)
    \/ Hint
    \/ Exit

Spec == Init /\ [][Next]_vars

----------------------------------------------------------------------------
(* The file filter on its own *)

\* FileResolutionOptions::from_options on the parsed options
Resolve ==
    /\ pc = "resolve"
    /\ file_resolution' = FileFromOptions(opts)
    /\ pc' = IF file_resolution'.kind = "Err" THEN "rejected" ELSE "filter"
    /\ UNCHANGED <<opts, crate_resolution, changes, stdout, stderr, calls, vcs,
                   written, result, status_code, file_name, included>>

\* one call of is_included on a diagnostic's file name
IsIncluded ==
    /\ pc = "filter"
    /\ included' = IF is_included(file_resolution, file_name) THEN "yes" ELSE "no"
    /\ pc' = "filtered"
    /\ UNCHANGED <<opts, crate_resolution, file_resolution, changes, stdout,
                   stderr, calls, vcs, written, result, status_code, file_name>>

FilterOptions ==
    {o \in OptionSets(SeqsUpTo(PatternPool, MaxPats), SeqsUpTo(PatternPool, MaxPats)) :
        /\ ~o.quiet /\ ~o.workspace /\ ~o.apply /\ ~o.help
        /\ ~o.allow_dirty /\ ~o.allow_staged /\ ~o.allow_no_vcs
        /\ o.package = <<>> /\ o.exclude = <<>>}

InitFilter ==
    /\ opts \in FilterOptions
    /\ pc = "resolve"
    /\ file_name \in FilePool
    /\ Fresh

NextFilter == Resolve \/ IsIncluded

SpecFilter == InitFilter /\ [][NextFilter]_vars

----------------------------------------------------------------------------
(* Properties *)

Invoked(c) == \E i \in 1..Len(calls) : calls[i] = c
Returned == pc \in {"returned", "exited"}
AllOverrides == opts.allow_dirty /\ opts.allow_staged /\ opts.allow_no_vcs
NoOverride == ~opts.allow_dirty /\ ~opts.allow_staged /\ ~opts.allow_no_vcs
Collected == changes # NotCollected

\* C1: commit_changes is invoked only under --apply and only if every
\* precondition the VCS status violates has its own override (NoVCS needs
\* allow_no_vcs, dirty files need allow_dirty, staged files need
\* allow_staged); with all three overrides the writes proceed for NoVCS,
\* Clean and Unclean.
ApplyGatedByOwnOverride ==
    /\ (pc = "commit" \/ Invoked("commit_changes")) =>
          /\ opts.apply
          /\ vcs.kind \in {"NoVCS", "Clean", "Unclean"}
          /\ (vcs.kind = "NoVCS" => opts.allow_no_vcs)
          /\ (vcs.dirty # {} => opts.allow_dirty)
          /\ (vcs.staged # {} => opts.allow_staged)
    /\ written # {} => Invoked("commit_changes")
    /\ (AllOverrides /\ vcs.kind \in {"NoVCS", "Clean", "Unclean"}) =>
          (pc = "commit" \/ Invoked("commit_changes"))

AppliedOverDirtyAndStaged ==
    /\ Invoked("commit_changes") /\ written # {}
    /\ vcs.kind = "Unclean" /\ vcs.dirty # {} /\ vcs.staged # {}
    /\ opts.allow_dirty /\ opts.allow_staged /\ ~opts.allow_no_vcs

\* C2: --apply on a dirty working tree without any override writes no file
\* and ends with an error result, distinguishable from a successful run;
\* with allow_dirty (and nothing staged) the writes proceed.
DirtyApplyEndsInError ==
    /\ (Returned /\ opts.apply /\ vcs.kind = "Unclean" /\ vcs.dirty # {}
          /\ NoOverride) =>
          /\ written = {} /\ ~Invoked("commit_changes")
          /\ result # "Ok"
          /\ (pc = "exited" => status_code # 0)
    /\ (opts.apply /\ vcs.kind = "Unclean" /\ vcs.dirty # {} /\ vcs.staged = {}
          /\ opts.allow_dirty) =>
          (pc = "commit" \/ Invoked("commit_changes"))

\* C3: from_options maps every (workspace, packages, excludes) combination
\* to one of Root, Package, Workspace or to Error::Args; it is an error
\* exactly for packages with --workspace or --exclude without --workspace,
\* and execute returns that error before get_unused runs.
CrateResolutionTotalAndEarly ==
    LET w == opts.workspace
        p == opts.package # <<>>
        e == opts.exclude # <<>>
        k == crate_resolution.kind
    IN  /\ (pc # "parse" /\ result # "CommandLine") =>
               k \in {"Root", "Package", "Workspace", "Err"}
        /\ k # "Unset" =>
               /\ (k = "Err") = ((p /\ w) \/ (e /\ ~w))
               /\ (k = "Workspace") = (w /\ ~p)
               /\ (k = "Package") = (~w /\ p /\ ~e)
               /\ (k = "Root") = (~w /\ ~p /\ ~e)
        /\ k = "Err" =>
               /\ result = "Args"
               /\ calls = <<>> /\ ~Collected
               /\ (pc = "exited" => status_code = 1)

ExcludeWithoutWorkspaceRejected ==
    /\ pc = "exited" /\ crate_resolution.kind = "Err"
    /\ opts.exclude # <<>> /\ ~opts.workspace
    /\ result = "Args"

\* C4: FileResolutionOptions::from_options is an error exactly when both
\* --file and --ignore are given, else Only (allow-list given) or AllBut;
\* on the error execute returns before any external process runs, prints no
\* diff and writes no file.
FileResolutionExclusiveAndEarly ==
    LET f == opts.file # <<>>
        i == opts.ignore # <<>>
        k == file_resolution.kind
    IN  /\ k \in {"Unset", "Only", "AllBut", "Err"}
        /\ (pc \notin {"parse", "resolve"} /\ k = "Unset") =>
               (result = "CommandLine" \/ crate_resolution.kind = "Err")
        /\ k # "Unset" =>
               /\ (k = "Err") = (f /\ i)
               /\ (k = "Only") = (f /\ ~i)
               /\ (k = "AllBut") = ~f
               /\ (k = "Only" => file_resolution.list = opts.file)
               /\ (k = "AllBut" => file_resolution.list = opts.ignore)
        /\ k = "Err" =>
               /\ pc \in {"returned", "exited", "rejected"}
               /\ pc # "rejected" => result = "Args"
               /\ calls = <<>> /\ stdout = <<>> /\ written = {}

BothListsRejected ==
    /\ pc = "exited" /\ file_resolution.kind = "Err"
    /\ opts.file # <<>> /\ opts.ignore # <<>>
    /\ opts.help /\ opts.apply /\ ~opts.quiet
    /\ status_code = 1

\* C5: vcs::status is queried only under --apply and only after the diff
\* preview (one diff per change unless quiet) has been printed; a preview
\* run never queries the VCS guard, never invokes commit_changes and writes
\* no file.
VcsOnlyForApplyAfterPreview ==
    /\ (pc = "vcs" \/ Invoked("vcs_status") \/ vcs.kind # "Unqueried") =>
          /\ opts.apply
          /\ Collected
          /\ ~opts.quiet =>
                /\ Len(stdout) >= changes
                /\ \A i \in 1..changes : stdout[i] = Line("diff", i)
          /\ (~opts.quiet /\ changes = 0) => Len(stderr) >= 1
    /\ ~opts.apply =>
          /\ vcs.kind = "Unqueried"
          /\ pc \notin {"vcs", "commit"}
          /\ ~Invoked("vcs_status") /\ ~Invoked("commit_changes")
          /\ written = {}

VcsQueriedAfterDiffs ==
    /\ Invoked("vcs_status") /\ opts.apply /\ ~opts.quiet
    /\ changes = MaxChanges /\ Len(stdout) = MaxChanges

Completed == result = "Ok"
Rejected == result \in {"Args", "CommandLine"}
Aborted == result \in {"Io", "Utf8", "Panic"}
ExactlyOneEnding ==
    /\ Completed \/ Rejected \/ Aborted
    /\ ~(Completed /\ Rejected) /\ ~(Completed /\ Aborted) /\ ~(Rejected /\ Aborted)
    /\ Rejected => calls = <<>>
    /\ Aborted => calls # <<>>

\* C6 as stated: every run completes, is rejected at validation or aborts
\* on an I/O/parse failure, and at any such abort (the unwrapped
\* commit_changes failure included) no file has been modified.
AbortLeavesFilesUntouched ==
    Returned => (ExactlyOneEnding /\ (Aborted => written = {}))

\* C6 amended: every run completes, is rejected at validation or aborts;
\* an abort in diagnostic collection or cargo metadata resolution happens
\* before any file is modified, while the unwrapped commit_changes failure
\* aborts with the files before the failing one already rewritten.
AbortBeforeCommitLeavesFilesUntouched ==
    /\ Returned =>
          /\ ExactlyOneEnding
          /\ result \in {"Io", "Utf8"} =>
                /\ written = {} /\ ~Invoked("commit_changes")
                /\ calls[Len(calls)] \in {"get_unused", "get_cargo_metadata"}
          /\ result = "Panic" =>
                /\ calls[Len(calls)] = "commit_changes"
                /\ written # 1..changes
                /\ \A f \in written : f < changes
    /\ ~Returned => result = "Running"

MetadataAbortWithChanges ==
    /\ pc = "exited" /\ result = "Io" /\ opts.apply
    /\ changes = MaxChanges
    /\ calls = <<"get_unused", "get_cargo_metadata">>

\* C7: when vcs::status returns Status::Error under --apply, commit_changes
\* is not invoked whatever the overrides, and the diff preview printed
\* before the query is what any run with these options and changes prints.
VcsErrorRefusesApply ==
    /\ vcs.kind = "Error" =>
          /\ pc # "commit" /\ ~Invoked("commit_changes") /\ written = {}
          /\ Returned /\ result = "Ok"
    /\ vcs.kind # "Unqueried" =>
          /\ Len(stdout) = IF opts.quiet THEN 0 ELSE changes
          /\ \A i \in 1..Len(stdout) : stdout[i] = Line("diff", i)

VcsErrorWithAllOverrides ==
    /\ pc = "exited" /\ vcs.kind = "Error" /\ AllOverrides
    /\ ~opts.quiet /\ changes = MaxChanges /\ Len(stdout) = MaxChanges

Range(s) == {s[i] : i \in 1..Len(s)}

\* C8: is_included under Only(allow) is true iff some allow pattern
\* glob-matches the file name (tests/foo.rs is excluded by ["src/*.rs"]);
\* under AllBut(deny) it is true iff no deny pattern glob-matches it (a file
\* under generated/ is excluded by ["generated/**"], an empty deny-list
\* includes every file).
IsIncludedMatchesLists ==
    included # "unset" =>
        /\ file_resolution.kind = "Only" =>
              (included = "yes") =
                  (\E p \in Range(opts.file) : glob_match(p, file_name))
        /\ file_resolution.kind = "AllBut" =>
              (included = "yes") =
                  (\A p \in Range(opts.ignore) : ~glob_match(p, file_name))
        /\ (opts.file = <<PatSrcRs>> /\ file_name = FileTestsFoo) =>
              included = "no"
        /\ (opts.file = <<>> /\ PatGenerated \in Range(opts.ignore)
              /\ file_name = FileGenXY) => included = "no"
        /\ (opts.file = <<>> /\ opts.ignore = <<>>) => included = "yes"

TestsFooExcludedByAllowList ==
    /\ pc = "filtered" /\ included = "no"
    /\ opts.file = <<PatSrcRs>> /\ file_name = FileTestsFoo

FoundNothing == Collected /\ changes = 0
MetadataFailed ==
    /\ result \in ExternalFailures
    /\ calls # <<>> /\ calls[Len(calls)] = "get_cargo_metadata"
ExitCategories ==
    /\ result \in {"Args", "CommandLine"} => status_code = 1
    /\ result = "Io" => status_code = 3
    /\ (status_code = 1) = (result \in {"Args", "CommandLine"})
    /\ (status_code = 3) = (result = "Io")

QuietPrintsNothing ==
    opts.quiet => stdout = <<>>

====
